---- MODULE Spec2Model ----
(***************************************************************************)
(* Model of src/app.py, the Streamlit "JSON Data Extractor": document      *)
(* loading, key inspection, field projection into a table and duplicate    *)
(* detection over that table.                                              *)
(*                                                                         *)
(* A Python str is a sequence of one-character strings.  A Python value is *)
(* a record tagged with the name type(value).__name__ gives it.            *)
(***************************************************************************)
EXTENDS Integers, Sequences, FiniteSets, TLC

\* Longest `data` array of an uploaded document.
MaxRows == 4
\* Longest `data` array that has one of the further elements (nested values,
\* a field named like the temporary column of the duplicate detection).
MaxRowsExtra == 2

-----------------------------------------------------------------------------
(* Python values                                                           *)

PyNone == [t |-> "NoneType"]
PyBool(b) == [t |-> "bool", v |-> b]
PyInt(n) == [t |-> "int", v |-> n]
\* A float64 cell: a whole number, or NaN (v is then unused).
PyFloat(n) == [t |-> "float", v |-> n, nan |-> FALSE]
PyNaN == [t |-> "float", v |-> 0, nan |-> TRUE]
PyStr(s) == [t |-> "str", v |-> s]
PyList(s) == [t |-> "list", v |-> s]
PyDict(s) == [t |-> "dict", v |-> s]

\* ASCII codes of the characters the model's strings are made of.
Ord(c) ==
    CASE c = " " -> 32 [] c = "\"" -> 34 [] c = "," -> 44 [] c = "-" -> 45
      [] c = "." -> 46
      [] c = "0" -> 48 [] c = "1" -> 49 [] c = "2" -> 50 [] c = "3" -> 51
      [] c = "4" -> 52 [] c = "5" -> 53 [] c = "6" -> 54 [] c = "7" -> 55
      [] c = "8" -> 56 [] c = "9" -> 57 [] c = ":" -> 58
      [] c = "F" -> 70 [] c = "N" -> 78 [] c = "T" -> 84 [] c = "[" -> 91 [] c = "\\" -> 92
      [] c = "]" -> 93 [] c = "_" -> 95
      [] c = "a" -> 97 [] c = "b" -> 98 [] c = "c" -> 99 [] c = "d" -> 100
      [] c = "e" -> 101 [] c = "f" -> 102 [] c = "i" -> 105 [] c = "k" -> 107
      [] c = "l" -> 108 [] c = "m" -> 109 [] c = "n" -> 110 [] c = "o" -> 111
      [] c = "r" -> 114 [] c = "s" -> 115 [] c = "t" -> 116 [] c = "u" -> 117
      [] c = "x" -> 120 [] c = "y" -> 121 [] c = "z" -> 122
      [] c = "{" -> 123 [] c = "}" -> 125

\* s < t for Python strings (lexicographic by code point).
RECURSIVE StrLess(_, _)
StrLess(s, t) ==
    IF t = <<>> THEN FALSE
    ELSE IF s = <<>> THEN TRUE
    ELSE IF Head(s) = Head(t) THEN StrLess(Tail(s), Tail(t))
    ELSE Ord(Head(s)) < Ord(Head(t))

DigitChar(d) ==
    CASE d = 0 -> "0" [] d = 1 -> "1" [] d = 2 -> "2" [] d = 3 -> "3"
      [] d = 4 -> "4" [] d = 5 -> "5" [] d = 6 -> "6" [] d = 7 -> "7"
      [] d = 8 -> "8" [] d = 9 -> "9"

DigitVal(c) == Ord(c) - 48

IsDigit(c) == c \in {"0", "1", "2", "3", "4", "5", "6", "7", "8", "9"}

\* Decimal digits of a natural number.
RECURSIVE NatStr(_)
NatStr(n) ==
    IF n < 10 THEN <<DigitChar(n)>>
    ELSE NatStr(n \div 10) \o <<DigitChar(n % 10)>>

\* int.__repr__
IntStr(n) == IF n < 0 THEN <<"-">> \o NatStr(0 - n) ELSE NatStr(n)

\* str.join
RECURSIVE Join(_, _)
Join(sep, parts) ==
    IF parts = <<>> THEN <<>>
    ELSE IF Len(parts) = 1 THEN parts[1]
    ELSE parts[1] \o sep \o Join(sep, Tail(parts))

-----------------------------------------------------------------------------
(* json.dumps and json.loads                                               *)

\* EscapeStr without the escaping.
EscapeStrNone(s) == s

\* The body of a JSON string literal: quote and backslash are escaped.
RECURSIVE EscapeStr(_)
EscapeStr(s) ==
    IF s = <<>> THEN <<>>
    ELSE (IF Head(s) \in {"\"", "\\"} THEN <<"\\", Head(s)>> ELSE <<Head(s)>>)
         \o EscapeStr(Tail(s))

RECURSIVE dumps(_)
dumps(x) ==
    CASE x.t = "NoneType" -> <<"n", "u", "l", "l">>
      [] x.t = "bool" -> IF x.v THEN <<"t", "r", "u", "e">>
                                ELSE <<"f", "a", "l", "s", "e">>
      [] x.t = "int" -> IntStr(x.v)
      [] x.t = "str" -> <<"\"">> \o EscapeStr(x.v) \o <<"\"">>
      [] x.t = "list" ->
            <<"[">> \o Join(<<",", " ">>, [i \in 1..Len(x.v) |-> dumps(x.v[i])])
                    \o <<"]">>
      [] x.t = "dict" ->
            <<"{">> \o Join(<<",", " ">>,
                            [i \in 1..Len(x.v) |->
                                <<"\"">> \o EscapeStr(x.v[i].k) \o <<"\"">>
                                \o <<":", " ">> \o dumps(x.v[i].v)])
                    \o <<"}">>

Fail == [ok |-> FALSE, val |-> PyNone, pos |-> 0]
Parsed(x, i) == [ok |-> TRUE, val |-> x, pos |-> i]

\* Index of the first non-blank character at or after i.
RECURSIVE SkipWs(_, _)
SkipWs(s, i) == IF i <= Len(s) /\ s[i] = " " THEN SkipWs(s, i + 1) ELSE i

\* s carries the characters of lit from index i on.
Matches(s, i, lit) ==
    /\ i + Len(lit) - 1 <= Len(s)
    /\ \A j \in 1..Len(lit) : s[i + j - 1] = lit[j]

\* The string literal whose opening quote is at i - 1.  Of the escapes only
\* those of quote and backslash are decoded; the others stand for characters
\* outside Ord's alphabet.
RECURSIVE ScanString(_, _, _)
ScanString(s, i, acc) ==
    IF i > Len(s) THEN Fail
    ELSE IF s[i] = "\"" THEN Parsed(acc, i + 1)
    ELSE IF s[i] = "\\"
         THEN IF i + 1 <= Len(s) /\ s[i + 1] \in {"\"", "\\"}
              THEN ScanString(s, i + 2, Append(acc, s[i + 1]))
              ELSE Fail
    ELSE ScanString(s, i + 1, Append(acc, s[i]))

RECURSIVE ScanDigits(_, _, _)
ScanDigits(s, i, acc) ==
    IF i <= Len(s) /\ IsDigit(s[i])
    THEN ScanDigits(s, i + 1, 10 * acc + DigitVal(s[i]))
    ELSE Parsed(acc, i)

\* dict[k] = x on an insertion-ordered dict.
DictSet(d, k, x) ==
    IF \E j \in 1..Len(d) : d[j].k = k
    THEN [j \in 1..Len(d) |-> IF d[j].k = k THEN [k |-> k, v |-> x] ELSE d[j]]
    ELSE Append(d, [k |-> k, v |-> x])

RECURSIVE ParseValue(_, _)
RECURSIVE ParseItems(_, _, _)
RECURSIVE ParsePairs(_, _, _)

\* The elements of an array from index i on, the first one expected at i.
ParseItems(s, i, acc) ==
    LET r == ParseValue(s, i) IN
    IF ~r.ok THEN Fail
    ELSE LET j == SkipWs(s, r.pos) IN
         IF j > Len(s) THEN Fail
         ELSE IF s[j] = "]" THEN Parsed(PyList(Append(acc, r.val)), j + 1)
         ELSE IF s[j] = "," THEN ParseItems(s, j + 1, Append(acc, r.val))
         ELSE Fail

\* The members of an object from index i on, the first key expected at i.
ParsePairs(s, i, acc) ==
    LET a == SkipWs(s, i) IN
    IF a > Len(s) \/ s[a] # "\"" THEN Fail
    ELSE LET key == ScanString(s, a + 1, <<>>) IN
         IF ~key.ok THEN Fail
         ELSE LET c == SkipWs(s, key.pos) IN
              IF c > Len(s) \/ s[c] # ":" THEN Fail
              ELSE LET r == ParseValue(s, c + 1) IN
                   IF ~r.ok THEN Fail
                   ELSE LET j == SkipWs(s, r.pos)
                            d == DictSet(acc, key.val, r.val)
                        IN IF j > Len(s) THEN Fail
                           ELSE IF s[j] = "}" THEN Parsed(PyDict(d), j + 1)
                           ELSE IF s[j] = "," THEN ParsePairs(s, j + 1, d)
                           ELSE Fail

ParseValue(s, i0) ==
    LET i == SkipWs(s, i0) IN
    IF i > Len(s) THEN Fail
    ELSE IF Matches(s, i, <<"n", "u", "l", "l">>) THEN Parsed(PyNone, i + 4)
    ELSE IF Matches(s, i, <<"t", "r", "u", "e">>) THEN Parsed(PyBool(TRUE), i + 4)
    ELSE IF Matches(s, i, <<"f", "a", "l", "s", "e">>)
         THEN Parsed(PyBool(FALSE), i + 5)
    ELSE IF s[i] = "\""
         THEN LET r == ScanString(s, i + 1, <<>>) IN
              IF r.ok THEN Parsed(PyStr(r.val), r.pos) ELSE Fail
    ELSE IF IsDigit(s[i])
         THEN LET r == ScanDigits(s, i, 0) IN Parsed(PyInt(r.val), r.pos)
    ELSE IF s[i] = "-"
         THEN IF i + 1 <= Len(s) /\ IsDigit(s[i + 1])
              THEN LET r == ScanDigits(s, i + 1, 0) IN
                   Parsed(PyInt(0 - r.val), r.pos)
              ELSE Fail
    ELSE IF s[i] = "["
         THEN LET j == SkipWs(s, i + 1) IN
              IF j <= Len(s) /\ s[j] = "]" THEN Parsed(PyList(<<>>), j + 1)
              ELSE ParseItems(s, i + 1, <<>>)
    ELSE IF s[i] = "{"
         THEN LET j == SkipWs(s, i + 1) IN
              IF j <= Len(s) /\ s[j] = "}" THEN Parsed(PyDict(<<>>), j + 1)
              ELSE ParsePairs(s, i + 1, <<>>)
    ELSE Fail

\* json.loads: ok is FALSE where Python raises JSONDecodeError.
loads(s) ==
    LET r == ParseValue(s, 1) IN
    IF r.ok /\ SkipWs(s, r.pos) = Len(s) + 1 THEN r ELSE Fail

-----------------------------------------------------------------------------
(* Python helpers used by the script                                       *)

Undefined == [t |-> "undefined"]

\* bool(x) is False: what `if not data_list` tests.
Falsy(x) ==
    CASE x.t = "NoneType" -> TRUE
      [] x.t = "bool" -> ~x.v
      [] x.t = "int" -> x.v = 0
      [] x.t \in {"str", "list", "dict"} -> x.v = <<>>

\* dict.get(k, default)
DictGet(d, k, default) ==
    IF \E j \in 1..Len(d.v) : d.v[j].k = k
    THEN d.v[CHOOSE j \in 1..Len(d.v) : d.v[j].k = k].v
    ELSE default

\* list(d.keys())
DictKeys(d) == [j \in 1..Len(d.v) |-> d.v[j].k]

\* What `for item in x` yields; x is a list, a str or a dict.
IterItems(x) ==
    CASE x.t = "list" -> x.v
      [] x.t = "str" -> [j \in 1..Len(x.v) |-> PyStr(<<x.v[j]>>)]
      [] x.t = "dict" -> [j \in 1..Len(x.v) |-> PyStr(x.v[j].k)]

Iterable(x) == x.t \in {"list", "str", "dict"}

\* name.endswith(suffix)
EndsWith(name, suffix) ==
    /\ Len(suffix) <= Len(name)
    /\ SubSeq(name, Len(name) - Len(suffix) + 1, Len(name)) = suffix

\* The members of a set of indices in ascending order.
RECURSIVE Ascending(_)
Ascending(I) ==
    IF I = {} THEN <<>>
    ELSE LET m == CHOOSE x \in I : \A y \in I : x <= y
         IN <<m>> \o Ascending(I \ {m})

\* sorted(strings): ascending, from a set of distinct strings.
RECURSIVE SortedStrs(_)
SortedStrs(S) ==
    IF S = {} THEN <<>>
    ELSE LET m == CHOOSE x \in S : \A y \in S \ {x} : StrLess(x, y)
         IN <<m>> \o SortedStrs(S \ {m})

\* All sequences without repetition over the set S.
RECURSIVE Arrangements(_)
Arrangements(S) ==
    {<<>>} \cup UNION {{<<x>> \o q : q \in Arrangements(S \ {x})} : x \in S}

Range(s) == {s[j] : j \in 1..Len(s)}

IndexOrders(n) == {q \in Arrangements(1..n) : Len(q) = n}

-----------------------------------------------------------------------------
(* pandas: the DataFrame operations the script calls                       *)

\* A DataFrame is [t, columns, index, rows]: the column labels, the row
\* labels, and per row the cells in column order.

\* dtype inference of one column of pd.DataFrame(list of dicts): integers
\* next to missing values become a float64 column with NaN for the missing
\* ones; every other mix the model has is kept as it is (int64, bool, object).
InferColumn(cells) ==
    LET tags == {cells[j].t : j \in 1..Len(cells)} IN
    IF tags = {"int", "NoneType"}
    THEN [j \in 1..Len(cells) |->
             IF cells[j].t = "int" THEN PyFloat(cells[j].v) ELSE PyNaN]
    ELSE cells

\* pd.DataFrame(df_data, columns=columns): df_data is a list of dicts.
DataFrame(df_data, columns) ==
    LET col(c) == InferColumn([r \in 1..Len(df_data) |->
                                  DictGet(df_data[r], columns[c], PyNone)])
    IN [t |-> "DataFrame",
        columns |-> columns,
        index |-> [r \in 1..Len(df_data) |-> r - 1],
        rows |-> [r \in 1..Len(df_data) |->
                     [c \in 1..Len(columns) |-> col(c)[r]]]]

ColPos(df, name) == CHOOSE c \in 1..Len(df.columns) : df.columns[c] = name

\* df[name]
Column(df, name) == [r \in 1..Len(df.rows) |-> df.rows[r][ColPos(df, name)]]

\* df[name] = cells: replaces the column of that label, or appends one.
SetColumn(df, name, cells) ==
    IF name \in Range(df.columns)
    THEN [df EXCEPT !.rows = [r \in 1..Len(df.rows) |->
             [df.rows[r] EXCEPT ![ColPos(df, name)] = cells[r]]]]
    ELSE [df EXCEPT !.columns = Append(df.columns, name),
                    !.rows = [r \in 1..Len(df.rows) |->
                                 Append(df.rows[r], cells[r])]]

\* df.drop(name, axis=1, errors='ignore')
DropColumn(df, name) ==
    IF name \notin Range(df.columns) THEN df
    ELSE LET keep == Ascending({c \in 1..Len(df.columns) : df.columns[c] # name})
         IN [df EXCEPT !.columns = [c \in 1..Len(keep) |-> df.columns[keep[c]]],
                       !.rows = [r \in 1..Len(df.rows) |->
                                    [c \in 1..Len(keep) |-> df.rows[r][keep[c]]]]]

\* df[names]
SelectColumns(df, names) ==
    [df EXCEPT !.columns = names,
               !.rows = [r \in 1..Len(df.rows) |->
                            [c \in 1..Len(names) |->
                                df.rows[r][ColPos(df, names[c])]]]]

\* The rows at the given positions, in the given order, keeping their labels.
TakeRows(df, positions) ==
    [df EXCEPT !.index = [j \in 1..Len(positions) |-> df.index[positions[j]]],
               !.rows = [j \in 1..Len(positions) |-> df.rows[positions[j]]]]

\* str(cell), as astype(str) renders a cell.
CellStr(x) ==
    CASE x.t = "NoneType" -> <<"N", "o", "n", "e">>
      [] x.t = "bool" -> IF x.v THEN <<"T", "r", "u", "e">>
                                ELSE <<"F", "a", "l", "s", "e">>
      [] x.t = "int" -> IntStr(x.v)
      [] x.t = "float" -> IF x.nan THEN <<"n", "a", "n">>
                                   ELSE IntStr(x.v) \o <<".", "0">>
      [] x.t = "str" -> x.v

IsNumber(x) == x.t \in {"bool", "int"} \/ (x.t = "float" /\ ~x.nan)

NumVal(x) == IF x.t = "bool" THEN (IF x.v THEN 1 ELSE 0) ELSE x.v

\* Two cells of one column are the same value for pandas' hash tables
\* (duplicated, drop_duplicates): Python equality, so True equals 1, and
\* missing values equal each other.
CellEq(x, y) ==
    IF IsNumber(x) /\ IsNumber(y) THEN NumVal(x) = NumVal(y)
    ELSE IF IsNumber(x) \/ IsNumber(y) THEN FALSE
    ELSE IF x.t = "str" /\ y.t = "str" THEN x.v = y.v
    ELSE IF x.t = "str" \/ y.t = "str" THEN FALSE
    ELSE TRUE

SameOn(df, subset, r1, r2) ==
    \A k \in 1..Len(subset) :
        CellEq(df.rows[r1][ColPos(df, subset[k])],
               df.rows[r2][ColPos(df, subset[k])])

\* df.duplicated(subset=subset, keep=False)
Duplicated(df, subset) ==
    [r \in 1..Len(df.rows) |->
        \E r2 \in 1..Len(df.rows) : r2 # r /\ SameOn(df, subset, r, r2)]

\* df.drop_duplicates(subset=subset): the first row of each combination.
DropDuplicates(df, subset) ==
    TakeRows(df, Ascending({r \in 1..Len(df.rows) :
                               \A r2 \in 1..(r - 1) : ~SameOn(df, subset, r, r2)}))

\* df[mask]
Mask(df, mask) == TakeRows(df, Ascending({r \in 1..Len(df.rows) : mask[r]}))

\* series.unique(): the distinct strings in order of first appearance.
Unique(cells) ==
    LET first == Ascending({r \in 1..Len(cells) :
                               \A r2 \in 1..(r - 1) : cells[r2] # cells[r]})
    IN [j \in 1..Len(first) |-> cells[first[j]]]

\* df.groupby(name).size().reset_index(): one row per distinct string of the
\* column, in ascending order of the strings (groupby sorts its keys).
GroupBySize(df, name) ==
    LET cells == Column(df, name)
        keys == SortedStrs({cells[r].v : r \in 1..Len(cells)})
    IN [j \in 1..Len(keys) |->
           [Combined_Key |-> keys[j],
            Count |-> Cardinality({r \in 1..Len(cells) : cells[r].v = keys[j]})]]

\* SortValuesDesc with ascending=True.
SortValuesAsc(table) ==
    {[j \in 1..Len(table) |-> table[q[j]]] :
        q \in {q \in IndexOrders(Len(table)) :
                  \A i, j \in 1..Len(table) :
                      i < j => table[q[i]].Count <= table[q[j]].Count}}

\* The results sort_values('Count', ascending=False) can give: the default
\* kind is quicksort, which is not stable, so rows of equal Count come in any
\* order.
SortValuesDesc(table) ==
    {[j \in 1..Len(table) |-> table[q[j]]] :
        q \in {q \in IndexOrders(Len(table)) :
                  \A i, j \in 1..Len(table) :
                      i < j => table[q[i]].Count >= table[q[j]].Count}}

-----------------------------------------------------------------------------
(* Inputs                                                                  *)

KeyA == <<"a">>
KeyB == <<"b">>
KeyK == <<"k">>
KeyX == <<"x">>
DataKey == <<"d", "a", "t", "a">>
\* The label of the temporary column of the duplicate detection.
CombinedKey == <<"_", "c", "o", "m", "b", "i", "n", "e", "d", "_", "k", "e", "y">>

Pair(k, x) == [k |-> k, v |-> x]

\* The elements a record array is made of.  The strings of the first two
\* records join to the same text in the order a, b; the third record has
\* integers; the fourth has True and no field b; the last element is not an
\* object.
Elements ==
    { PyDict(<<Pair(KeyA, PyStr(<<"x", " ", "-", " ", "y">>)), Pair(KeyB, PyStr(<<"y">>))>>),
      PyDict(<<Pair(KeyA, PyStr(<<"x">>)), Pair(KeyB, PyStr(<<"y", " ", "-", " ", "y">>))>>),
      PyDict(<<Pair(KeyA, PyInt(1)), Pair(KeyB, PyInt(2))>>),
      PyDict(<<Pair(KeyA, PyBool(TRUE))>>),
      PyInt(7) }

\* Further elements: one with a field named like the temporary column, the
\* string "1" and an array value; one with an object value.
ExtraElements ==
    { PyDict(<<Pair(CombinedKey, PyStr(<<"x">>)), Pair(KeyA, PyStr(<<"1">>)),
               Pair(KeyB, PyList(<<PyInt(1), PyDict(<<Pair(KeyK, PyNone)>>)>>))>>),
      PyDict(<<Pair(KeyA, PyDict(<<Pair(KeyK,
                              PyList(<<PyStr(<<"y", "\"">>), PyInt(-2)>>))>>))>>) }

\* The arrays of at most n elements of E.
RECURSIVE Arrays(_, _)
Arrays(E, n) ==
    IF n = 0 THEN {<<>>}
    ELSE LET shorter == Arrays(E, n - 1) IN
         shorter \cup {Append(q, e) : q \in {q \in shorter : Len(q) = n - 1},
                                      e \in E}

\* Documents whose root is an object with a `data` array.
DataDocuments ==
    {PyDict(<<Pair(DataKey, PyList(q))>>) :
        q \in Arrays(Elements, MaxRows)
               \cup Arrays(Elements \cup ExtraElements, MaxRowsExtra)}

\* Documents of every other shape: a root array, scalar roots, objects
\* without `data`, objects whose `data` is not an array.
OtherDocuments ==
    { PyList(<<PyDict(<<Pair(KeyX, PyInt(1))>>), PyDict(<<Pair(KeyX, PyInt(2))>>)>>),
      PyList(<<>>),
      PyInt(7), PyInt(0), PyStr(<<"x">>), PyNone, PyBool(TRUE),
      PyDict(<<>>),
      PyDict(<<Pair(KeyK, PyInt(1)), Pair(KeyA, PyList(<<>>))>>),
      PyDict(<<Pair(DataKey, PyNone), Pair(KeyK, PyInt(1))>>),
      PyDict(<<Pair(DataKey, PyInt(7))>>),
      PyDict(<<Pair(DataKey, PyStr(<<"x", "y">>))>>),
      PyDict(<<Pair(DataKey, PyDict(<<Pair(KeyK, PyDict(<<Pair(KeyA, PyInt(1))>>))>>))>>) }

JsonName == <<"f", ".", "j", "s", "o", "n">>
TxtName == <<"f", ".", "t", "x", "t">>

\* Texts that are not JSON.
BrokenTexts == { <<>>, <<"[", "1", ",", "]">>, <<"{", "\"", "a", "\"", "}">> }

\* The characters of a string as a file writes them inside quotes.
RECURSIVE Quoted(_)
Quoted(s) ==
    IF s = <<>> THEN <<>>
    ELSE IF Head(s) = "\"" THEN <<"\\", "\"">> \o Quoted(Tail(s))
    ELSE IF Head(s) = "\\" THEN <<"\\", "\\">> \o Quoted(Tail(s))
    ELSE <<Head(s)>> \o Quoted(Tail(s))

\* The text of a file that holds the document x, written without blanks
\* after commas and with blanks around colons.
RECURSIVE JsonText(_)
JsonText(x) ==
    CASE x.t = "NoneType" -> <<"n", "u", "l", "l">>
      [] x.t = "bool" -> IF x.v THEN <<"t", "r", "u", "e">>
                                ELSE <<"f", "a", "l", "s", "e">>
      [] x.t = "int" -> IntStr(x.v)
      [] x.t = "str" -> <<"\"">> \o Quoted(x.v) \o <<"\"">>
      [] x.t = "list" ->
            <<"[">> \o Join(<<",">>, [i \in 1..Len(x.v) |-> JsonText(x.v[i])])
                    \o <<"]">>
      [] x.t = "dict" ->
            <<"{">> \o Join(<<",">>,
                            [i \in 1..Len(x.v) |->
                                <<"\"">> \o Quoted(x.v[i].k) \o <<"\"", " ", ":", " ">>
                                \o JsonText(x.v[i].v)])
                    \o <<"}">>

\* The files a user uploads: a name and the text of the file.
Files ==
    {[name |-> JsonName, body |-> JsonText(d)] : d \in DataDocuments \cup OtherDocuments}
    \cup {[name |-> TxtName, body |-> JsonText(d)] : d \in OtherDocuments}
    \cup {[name |-> n, body |-> b] : n \in {JsonName, TxtName}, b \in BrokenTexts}

-----------------------------------------------------------------------------
(* The script                                                              *)

VARIABLES
    pc,                    \* where the run of the script stands
    uploaded_file,         \* the file of st.file_uploader
    json_data,
    data_list,
    available_keys,
    shown,                 \* the messages st.error, st.info, st.warning and
                           \* st.success have shown in this run
    keys_info,
    keys_list,
    selected_keys,
    df,
    duplicate_check_keys,
    duplicate_records,
    unique_duplicate_keys,
    summary_df,
    sample_duplicates,     \* sample_duplicates[selected_keys], as displayed
    duplicate_export       \* duplicate_records[selected_keys], as exported

vars == <<pc, uploaded_file, json_data, data_list, available_keys, shown,
          keys_info, keys_list, selected_keys, df, duplicate_check_keys,
          duplicate_records, unique_duplicate_keys, summary_df,
          sample_duplicates, duplicate_export>>

MsgUpload == "Please upload a JSON file to get started."
MsgInvalidTxt == "Invalid JSON in text file."
MsgInvalidJson == "Invalid JSON file. Please upload a valid JSON."
MsgException == "An error occurred"
MsgNoData == "No 'data' key found or it is empty in the JSON."
MsgRootArray == "Using root array as data source."
MsgAvailableKeys == "Available keys in JSON"
MsgNoDicts == "No dictionary items found in the 'data' array."
MsgNoItems == "No data items found to extract."
MsgFound == "Found duplicate records"
MsgNoDuplicates == "No duplicates found based on the selected keys!"

Init ==
    /\ pc = "idle"
    /\ uploaded_file = Undefined
    /\ json_data = Undefined
    /\ data_list = Undefined
    /\ available_keys = Undefined
    /\ shown = {}
    /\ keys_info = Undefined
    /\ keys_list = Undefined
    /\ selected_keys = Undefined
    /\ df = Undefined
    /\ duplicate_check_keys = Undefined
    /\ duplicate_records = Undefined
    /\ unique_duplicate_keys = Undefined
    /\ summary_df = Undefined
    /\ sample_duplicates = Undefined
    /\ duplicate_export = Undefined

\* No file in the uploader: the instructions are shown.
NoUpload ==
    /\ pc = "idle"
    /\ pc' = "done"
    /\ shown' = {MsgUpload}
    /\ UNCHANGED <<uploaded_file, json_data, data_list, available_keys,
                   keys_info, keys_list, selected_keys, df,
                   duplicate_check_keys, duplicate_records,
                   unique_duplicate_keys, summary_df, sample_duplicates,
                   duplicate_export>>

\* st.file_uploader returns a file.
Upload ==
    /\ pc = "idle"
    /\ \E f \in Files : uploaded_file' = f
    /\ pc' = "load"
    /\ UNCHANGED <<json_data, data_list, available_keys, shown, keys_info,
                   keys_list, selected_keys, df, duplicate_check_keys,
                   duplicate_records, unique_duplicate_keys, summary_df,
                   sample_duplicates, duplicate_export>>

\* What the two except clauses show for a text that is not JSON.
ParseErrorMessage(name) ==
    IF EndsWith(name, <<".", "t", "x", "t">>) THEN MsgInvalidTxt ELSE MsgInvalidJson

\* json.load and the extraction of the 'data' list.  json_data.get exists
\* only on a dict: on any other root it raises AttributeError, which the
\* `except Exception` clause reports.
Load ==
    /\ pc = "load"
    /\ LET r == loads(uploaded_file.body) IN
       IF ~r.ok
       THEN /\ shown' = {ParseErrorMessage(uploaded_file.name)}
            /\ pc' = "done"
            /\ UNCHANGED <<json_data, data_list, available_keys>>
       ELSE IF r.val.t # "dict"
       THEN /\ json_data' = r.val
            /\ shown' = {MsgException}
            /\ pc' = "done"
            /\ UNCHANGED <<data_list, available_keys>>
       ELSE LET got == DictGet(r.val, DataKey, PyList(<<>>)) IN
            /\ json_data' = r.val
            /\ IF Falsy(got)
               THEN /\ pc' = "done"
                    /\ IF r.val.t = "list"
                       THEN /\ data_list' = r.val
                            /\ shown' = {MsgNoData, MsgRootArray}
                            /\ UNCHANGED available_keys
                       ELSE /\ data_list' = got
                            /\ available_keys' = DictKeys(r.val)
                            /\ shown' = {MsgNoData, MsgAvailableKeys}
               ELSE /\ data_list' = got
                    /\ pc' = "inspect"
                    /\ UNCHANGED <<shown, available_keys>>
    /\ UNCHANGED <<uploaded_file, keys_info, keys_list, selected_keys, df,
                   duplicate_check_keys, duplicate_records,
                   unique_duplicate_keys, summary_df, sample_duplicates,
                   duplicate_export>>

\* The dict elements of the data list, in order.
DictItems(list) ==
    LET items == IterItems(list)
        at == Ascending({j \in 1..Len(items) : items[j].t = "dict"})
    IN [j \in 1..Len(at) |-> items[at[j]]]

\* keys_info: for every key of a dict element, the type names of its values.
KeysInfo(list) ==
    LET items == DictItems(list)
        keys == UNION {Range(DictKeys(items[j])) : j \in 1..Len(items)}
    IN [k \in keys |->
           {DictGet(items[j], k, Undefined).t :
               j \in {j \in 1..Len(items) : k \in Range(DictKeys(items[j]))}}]

\* The collection of the keys.  Iterating a data value that is a number or a
\* boolean raises TypeError.
Inspect ==
    /\ pc = "inspect"
    /\ IF ~Iterable(data_list)
       THEN /\ shown' = {MsgException}
            /\ pc' = "done"
            /\ UNCHANGED <<keys_info, keys_list>>
       ELSE LET info == KeysInfo(data_list) IN
            /\ keys_info' = info
            /\ IF DOMAIN info = {}
               THEN /\ shown' = {MsgNoDicts}
                    /\ pc' = "done"
                    /\ UNCHANGED keys_list
               ELSE /\ keys_list' = SortedStrs(DOMAIN info)
                    /\ pc' = "select"
                    /\ UNCHANGED shown
    /\ UNCHANGED <<uploaded_file, json_data, data_list, available_keys,
                   selected_keys, df, duplicate_check_keys, duplicate_records,
                   unique_duplicate_keys, summary_df, sample_duplicates,
                   duplicate_export>>

\* The multiselect of the keys: any of the options, in the order the user
\* picked them.
Select ==
    /\ pc = "select"
    /\ \E sel \in Arrangements(Range(keys_list)) :
          /\ selected_keys' = sel
          /\ pc' = IF sel # <<>> THEN "project" ELSE "done"
    /\ UNCHANGED <<uploaded_file, json_data, data_list, available_keys, shown,
                   keys_info, keys_list, df, duplicate_check_keys,
                   duplicate_records, unique_duplicate_keys, summary_df,
                   sample_duplicates, duplicate_export>>

\* RowValue with item.get(key, "") for item.get(key, None).
RowValueEmptyDefault(item, key) ==
    LET value == DictGet(item, key, PyStr(<<>>)) IN
    IF value.t \in {"dict", "list"} THEN PyStr(dumps(value)) ELSE value

\* row[key] of the projection: nested dicts and lists become JSON text.
RowValue(item, key) ==
    LET value == DictGet(item, key, PyNone) IN
    IF value.t \in {"dict", "list"} THEN PyStr(dumps(value)) ELSE value

\* DfData with isinstance(item, list) for isinstance(item, dict).
DfDataWrongType(list, selected) ==
    LET all == IterItems(list)
        at == Ascending({j \in 1..Len(all) : all[j].t = "list"})
    IN [j \in 1..Len(at) |->
           PyDict([c \in 1..Len(selected) |-> Pair(selected[c], PyNone)])]

\* df_data: one row per dict element.
DfData(list, selected) ==
    LET items == DictItems(list) IN
    [j \in 1..Len(items) |->
        PyDict([c \in 1..Len(selected) |->
                   Pair(selected[c], RowValue(items[j], selected[c]))])]

\* The projection, and the table when there are rows.  After it the script
\* goes on to the duplicate detection section in either case.
Project ==
    /\ pc = "project"
    /\ LET df_data == DfData(data_list, selected_keys) IN
       IF df_data # <<>>
       THEN /\ df' = DataFrame(df_data, selected_keys)
            /\ UNCHANGED shown
       ELSE /\ shown' = {MsgNoItems}
            /\ UNCHANGED df
    /\ pc' = "choose"
    /\ UNCHANGED <<uploaded_file, json_data, data_list, available_keys,
                   keys_info, keys_list, selected_keys, duplicate_check_keys,
                   duplicate_records, unique_duplicate_keys, summary_df,
                   sample_duplicates, duplicate_export>>

\* The multiselect of the keys to check for duplicates.
ChooseDuplicateKeys ==
    /\ pc = "choose"
    /\ \E keys \in Arrangements(Range(selected_keys)) :
          /\ duplicate_check_keys' = keys
          /\ pc' = IF keys # <<>> THEN "detect" ELSE "done"
    /\ UNCHANGED <<uploaded_file, json_data, data_list, available_keys, shown,
                   keys_info, keys_list, selected_keys, df, duplicate_records,
                   unique_duplicate_keys, summary_df, sample_duplicates,
                   duplicate_export>>

\* The combined key of every row: df[keys].astype(str), joined by ' - ' when
\* there are several keys.
CombinedKeys(table, keys) ==
    [r \in 1..Len(table.rows) |->
        PyStr(IF Len(keys) = 1
              THEN CellStr(table.rows[r][ColPos(table, keys[1])])
              ELSE Join(<<" ", "-", " ">>,
                        [k \in 1..Len(keys) |->
                            CellStr(table.rows[r][ColPos(table, keys[k])])]))]

\* df after df['_combined_key'] = ...
WithCombinedKey(table, keys) ==
    SetColumn(table, CombinedKey, CombinedKeys(table, keys))

\* duplicate_records
DuplicateRecords(table, keys) ==
    LET keyed == WithCombinedKey(table, keys)
    IN Mask(keyed, Duplicated(keyed, keys))

\* The duplicate detection.  With no table (df was never assigned) the first
\* use of df raises NameError.
Detect ==
    /\ pc = "detect"
    /\ pc' = "done"
    /\ IF df = Undefined
       THEN /\ shown' = shown \cup {MsgException}
            /\ UNCHANGED <<df, duplicate_records, unique_duplicate_keys,
                           summary_df, sample_duplicates, duplicate_export>>
       ELSE LET keyed == WithCombinedKey(df, duplicate_check_keys)
                records == DuplicateRecords(df, duplicate_check_keys)
            IN /\ duplicate_records' = records
               /\ unique_duplicate_keys' =
                      LET cells == Column(records, CombinedKey)
                      IN Unique([r \in 1..Len(cells) |-> cells[r].v])
               /\ IF Len(records.rows) > 0
                  THEN /\ shown' = shown \cup {MsgFound}
                       /\ summary_df' \in
                              SortValuesDesc(GroupBySize(records, CombinedKey))
                       /\ sample_duplicates' =
                              SelectColumns(
                                  DropDuplicates(records, duplicate_check_keys),
                                  selected_keys)
                       /\ duplicate_export' = SelectColumns(records, selected_keys)
                  ELSE /\ shown' = shown \cup {MsgNoDuplicates}
                       /\ UNCHANGED <<summary_df, sample_duplicates,
                                      duplicate_export>>
               /\ df' = DropColumn(keyed, CombinedKey)
    /\ UNCHANGED <<uploaded_file, json_data, data_list, available_keys,
                   keys_info, keys_list, selected_keys, duplicate_check_keys>>

\* Any interaction makes Streamlit run the script again from the top.
Rerun ==
    /\ pc = "done"
    /\ pc' = "idle"
    /\ uploaded_file' = Undefined
    /\ json_data' = Undefined
    /\ data_list' = Undefined
    /\ available_keys' = Undefined
    /\ shown' = {}
    /\ keys_info' = Undefined
    /\ keys_list' = Undefined
    /\ selected_keys' = Undefined
    /\ df' = Undefined
    /\ duplicate_check_keys' = Undefined
    /\ duplicate_records' = Undefined
    /\ unique_duplicate_keys' = Undefined
    /\ summary_df' = Undefined
    /\ sample_duplicates' = Undefined
    /\ duplicate_export' = Undefined

Next ==
    \/ NoUpload
    \/ Upload
    \/ Load
    \/ Inspect
    \/ Select
    \/ Project
    \/ ChooseDuplicateKeys
    \/ Detect
    \/ Rerun

Spec == Init /\ [][Next]_vars

-----------------------------------------------------------------------------
(* Properties                                                              *)

\* The position in the array of its n-th element that is an object.
NthDict(array, n) ==
    CHOOSE q \in 1..Len(array) :
        /\ array[q].t = "dict"
        /\ Cardinality({j \in 1..q : array[j].t = "dict"}) = n

\* The table the projection builds from the loaded data and the selection.
ProjectedTable == DataFrame(DfData(data_list, selected_keys), selected_keys)

\* The table has been built and the duplicate detection has not run yet.
Projected == pc \in {"choose", "detect"} /\ data_list.t = "list"

\* The duplicate detection has run to its end.
Detected == pc = "done" /\ (MsgFound \in shown \/ MsgNoDuplicates \in shown)

\* The duplicate detection has run and found duplicates.
Found == pc = "done" /\ MsgFound \in shown

IsNull(cell) == cell.t = "NoneType" \/ (cell.t = "float" /\ cell.nan)

\* A cell holds the scalar of the record: the same value, where pandas may
\* keep an integer as the float of the same number and a null as NaN.
ScalarSame(orig, cell) ==
    CASE orig.t = "NoneType" -> IsNull(cell)
      [] orig.t = "int" -> cell = PyInt(orig.v) \/ cell = PyFloat(orig.v)
      [] OTHER -> cell = orig

\* C3: the projected table has one row per object element of `data`, in the
\* original order, non-object elements skipped; its columns are the selected
\* fields in selection order, every row has one cell per selected field, a
\* field absent from a record is null in its row, and with all discovered
\* fields selected the column set is the discovered field set.
C3_ProjectionShape ==
    Projected =>
        LET array == data_list.v
            dicts == {q \in 1..Len(array) : array[q].t = "dict"}
        IN /\ df.t = "DataFrame"
           /\ Len(df.rows) = Cardinality(dicts)
           /\ df.columns = selected_keys
           /\ \A r \in 1..Len(df.rows) :
                 /\ Len(df.rows[r]) = Len(selected_keys)
                 /\ \A c \in 1..Len(selected_keys) :
                       LET item == array[NthDict(array, r)] IN
                       IF selected_keys[c] \in Range(DictKeys(item))
                       THEN LET orig == DictGet(item, selected_keys[c], Undefined)
                            IN orig.t \in {"list", "dict"}
                               \/ ScalarSame(orig, df.rows[r][c])
                       ELSE IsNull(df.rows[r][c])
           /\ Range(selected_keys) = Range(keys_list) =>
                 Range(df.columns) =
                     UNION {Range(DictKeys(array[q])) : q \in dicts}

\* C3 witness: a table of two columns selected against the sorted order,
\* built from an array with a non-object element, with a null cell for an
\* absent field.
C3_Witness ==
    /\ Projected
    /\ selected_keys = <<KeyB, KeyA>>
    /\ \E q \in 1..Len(data_list.v) : data_list.v[q].t # "dict"
    /\ Len(df.rows) >= 2
    /\ \E r \in 1..Len(df.rows) :
          /\ KeyB \notin Range(DictKeys(data_list.v[NthDict(data_list.v, r)]))
          /\ IsNull(df.rows[r][1])

C10_DetectionGated ==
    /\ MsgNoItems \notin shown
    /\ pc \in {"choose", "detect"} =>
          /\ selected_keys # <<>>
          /\ df.t = "DataFrame"
          /\ Len(df.rows) >= 1
    /\ pc = "detect" => duplicate_check_keys # <<>>
    /\ Detected =>
          /\ selected_keys # <<>>
          /\ duplicate_check_keys # <<>>
          /\ duplicate_records.t = "DataFrame"

\* C10 witness: the detection has run over the table of an array that has
\* a non-object element.
C10_Witness ==
    /\ Detected
    /\ \E q \in 1..Len(data_list.v) : data_list.v[q].t # "dict"
    /\ Len(df.rows) >= 1

\* The combined key of the row of duplicate_records with the given label.
KeyOfLabel(label) ==
    LET r == CHOOSE r \in 1..Len(duplicate_records.rows) :
                 duplicate_records.index[r] = label
    IN Column(duplicate_records, CombinedKey)[r].v

\* The groups of a set of reported rows: the sets of labels of the rows
\* with the same combined key.
Groups(records) ==
    LET cells == Column(records, CombinedKey) IN
    {{records.index[r] : r \in {r \in 1..Len(cells) : cells[r] = cells[r2]}} :
        r2 \in 1..Len(cells)}

\* C1: the reported rows are exactly the rows of the projected table whose
\* DuplicateKey (the stringified key cells joined by " - ") is the key of
\* another row too, and every reported group has at least two rows.
C1_ReportIsSharedKeys ==
    Detected =>
        LET table == ProjectedTable
            key == CombinedKeys(table, duplicate_check_keys)
            shared == {r \in 1..Len(table.rows) :
                          \E r2 \in 1..Len(table.rows) : r2 # r /\ key[r2] = key[r]}
        IN /\ Range(duplicate_records.index) = {table.index[r] : r \in shared}
           /\ Found => \A j \in 1..Len(summary_df) : summary_df[j].Count >= 2

\* C2: when the document is an array, the fallback is signalled and the
\* root array is the record collection.
C2_RootArrayFallback ==
    (pc = "done" /\ json_data.t = "list") =>
        /\ MsgRootArray \in shown
        /\ data_list = json_data

\* The document is an object with a non-empty `data` array.
UsableData(doc) ==
    /\ doc.t = "dict"
    /\ DictGet(doc, DataKey, PyNone).t = "list"
    /\ DictGet(doc, DataKey, PyNone).v # <<>>

\* C5: when the root is an object without a non-empty `data` array, or a
\* scalar, loading ends by reporting the missing data with the top-level
\* keys of an object root, with an empty record collection, without the
\* generic failure and without a table.
C5_StructureError ==
    (pc = "done" /\ json_data.t \notin {"undefined", "list"} /\ ~UsableData(json_data)) =>
        /\ MsgNoData \in shown
        /\ MsgException \notin shown
        /\ df = Undefined
        /\ json_data.t = "dict" =>
              /\ MsgAvailableKeys \in shown
              /\ available_keys = DictKeys(json_data)
              /\ Falsy(data_list)

\* C6: detection with the key columns in any other order reports the same
\* rows in the same groups.
C6_KeyOrderIndependent ==
    Detected =>
        \A other \in {q \in Arrangements(Range(duplicate_check_keys)) :
                         Len(q) = Len(duplicate_check_keys)} :
            Groups(DuplicateRecords(ProjectedTable, other)) = Groups(duplicate_records)

\* The first row of the projected table with the given combined key.
FirstSeen(key) ==
    LET keys == CombinedKeys(ProjectedTable, duplicate_check_keys)
    IN CHOOSE r \in 1..Len(keys) :
           keys[r].v = key /\ \A r2 \in 1..(r - 1) : keys[r2].v # key

\* C7 as stated: the summary is sorted by descending count, and groups of
\* equal count are in the order in which their keys are first seen in the
\* projected table.
C7_SummaryOrderFirstSeen ==
    Found =>
        \A i, j \in 1..Len(summary_df) :
            i < j =>
                \/ summary_df[i].Count > summary_df[j].Count
                \/ /\ summary_df[i].Count = summary_df[j].Count
                   /\ FirstSeen(summary_df[i].Combined_Key)
                          < FirstSeen(summary_df[j].Combined_Key)

\* C7 as amended: the summary has one line for every distinct combined key
\* of the reported rows, with the number of reported rows of that key, and
\* its lines are in descending order of that number.
C7_SummaryDescending ==
    Found =>
        LET cells == Column(duplicate_records, CombinedKey) IN
        /\ \A i, j \in 1..Len(summary_df) :
              i < j => /\ summary_df[i].Count >= summary_df[j].Count
                       /\ summary_df[i].Combined_Key # summary_df[j].Combined_Key
        /\ {summary_df[j].Combined_Key : j \in 1..Len(summary_df)}
               = {cells[r].v : r \in 1..Len(cells)}
        /\ \A j \in 1..Len(summary_df) :
              summary_df[j].Count =
                  Cardinality({r \in 1..Len(cells) :
                                  cells[r].v = summary_df[j].Combined_Key})

\* C7 witness: a summary of two groups of different counts.
C7_Witness ==
    /\ Found
    /\ Len(summary_df) = 2
    /\ summary_df[1].Count > summary_df[2].Count

\* C8: the sample view has one row for each line of the summary, the j-th
\* sample row being a member of the group of the j-th line.
C8_SampleFollowsSummary ==
    Found =>
        /\ Len(sample_duplicates.rows) = Len(summary_df)
        /\ \A j \in 1..Len(summary_df) :
              j <= Len(sample_duplicates.rows) =>
                  KeyOfLabel(sample_duplicates.index[j]) = summary_df[j].Combined_Key

\* C9: after the detection the table has the selected columns with the
\* cells the projection gave them, and the rows of the sample view and of
\* the export carry the projected cells of their selected columns.
C9_TableUnchanged ==
    Detected =>
        /\ df = ProjectedTable
        /\ Found =>
              \A view \in {sample_duplicates, duplicate_export} :
                  /\ view.columns = selected_keys
                  /\ \A j \in 1..Len(view.rows) :
                        view.rows[j] = ProjectedTable.rows[view.index[j] + 1]
====
